---------------------------- MODULE Spec2Model ----------------------------
(***************************************************************************)
(* Model of the wBAN bridge back end: the Redis ledger store               *)
(* (RedisUsersDepositsStorage), the claim state machine and the three job  *)
(* processors of Service (withdrawal, swap to wBAN, swap to BAN).          *)
(*                                                                         *)
(* Every await of the TypeScript code that touches Redis, a lock or an     *)
(* external collaborator is one step of the operation that makes it, so    *)
(* that operations interleave exactly where the event loop lets them.      *)
(***************************************************************************)
EXTENDS Integers, Sequences, FiniteSets, TLC

VARIABLES
    balance,        \* ban-balance:<addr>            addr -> base units
    deposits,       \* deposits:<addr>               sorted set {<<member, score>>}
    withdrawals,    \* withdrawals:<addr>            sorted set
    swapsBanToWban, \* swaps:ban-to-wban:<addr>      sorted set
    swapsWbanToBan, \* swaps:wban-to-ban:<bc addr>   sorted set
    audit,          \* audit:<hash|receipt>          set of hashes (records)
    pendingClaims,  \* claims:pending:<addr>:<bc>    set of <<addr, bc>>
    claims,         \* claims:<addr>:<bc>            set of <<addr, bc>>
    locks,          \* redlock resources             name -> holder (0: free)
    ops,            \* the operations submitted so far, each with its position
    calls,          \* the claim() calls made so far, each with its position
    hotWallet,      \* balance of the hot wallet on the native chain
    sends,          \* native-coin sends made by banano.sendBan
    receipts,       \* mint receipts issued by blockchain.createMintReceipt
    nextHash,       \* source of fresh transaction hashes and receipts
    latestBlock,    \* blockchain:blocks:latest        block height, or Null
    setters,        \* the setLastBlockchainBlockProcessed calls, each with its position
    history         \* what the last history read returned

vars == <<balance, deposits, withdrawals, swapsBanToWban, swapsWbanToBan, audit,
          pendingClaims, claims, locks, ops, calls, hotWallet, sends, receipts,
          nextHash, latestBlock, setters, history>>

aside == <<latestBlock, setters, history>>

redisLedger == <<balance, deposits, withdrawals, swapsBanToWban, swapsWbanToBan, audit>>

redisClaims == <<pendingClaims, claims>>

outside == <<hotWallet, sends, receipts, nextHash>>

---------------------------------------------------------------------------
(* Bounds of the model.                                                    *)

\* operations (deposits and jobs, successors included) in one behaviour
MaxOps == 3

\* largest amount, in BAN, a request may carry
MaxAmount == 2

\* largest client timestamp of a request
MaxTs == 2

\* base units per BAN: stands for the 10^18 of ethers.utils.parseEther
BaseUnitsPerBAN == 10

\* balance of ban_a, in BAN, in the initial state
InitBAN == 1

\* hot wallet balance, in BAN, after a refill
MaxHot == 2

\* claim() calls in one behaviour
MaxCalls == 2

\* setLastBlockchainBlockProcessed calls in one behaviour
MaxSetters == 3

\* highest block height passed to setLastBlockchainBlockProcessed
MaxBlock == 3

\* RedisUsersDepositsStorage.LIMIT, the cap of a history read (1000 in the code)
LIMIT == 2

---------------------------------------------------------------------------
(* Addresses.  BAN addresses reach the back end as the client typed them;  *)
(* the store lowercases them where the code says so.                       *)

NativeRaw == {"ban_a", "BAN_A", "ban_z"}

toLowerCase(s) == IF s = "BAN_A" THEN "ban_a" ELSE s

Native == {toLowerCase(s) : s \in NativeRaw}

Blockchain == {"bc_b", "bc_c"}

\* redis.get answers null for a key that was never set
Null == -1

NoHash == <<"-", 0>>

parseEther(amount) == amount * BaseUnitsPerBAN

---------------------------------------------------------------------------
(* Redis data types.                                                       *)

\* ZADD key score member: a member is kept once, with its latest score
zadd(zset, score, member) ==
    {e \in zset : e[1] # member} \cup {<<member, score>>}

\* ZCOUNT key min max
zcount(zset, min, max) ==
    Cardinality({e \in zset : min <= e[2] /\ e[2] <= max})

\* ZRANK key member (TRUE: a rank, FALSE: null)
zrank(zset, member) == \E e \in zset : e[1] = member

\* faulty variant: the audit entry is left out of the transaction
hset_omitted(key, type, amount, ts) == audit

\* HSET audit:<key> fields
hset(key, type, amount, ts) ==
    {r \in audit : r.key # key}
        \cup {[key |-> key, type |-> type, amount |-> amount, ts |-> ts]}

LockNames ==
    ({"locks:ban-balance"} \X NativeRaw) \cup ({"locks:swaps:ban-to-wban"} \X Native)

balanceLock(addr) == <<"locks:ban-balance", addr>>

swapsLock(addr) == <<"locks:swaps:ban-to-wban", addr>>

---------------------------------------------------------------------------
(* Operations.                                                             *)

Op(kind, a, bc, amt, ts, hash, sigOk, attempt, pc) ==
    [kind |-> kind, a |-> a, bc |-> bc, amt |-> amt, ts |-> ts, hash |-> hash,
     sigOk |-> sigOk, attempt |-> attempt, pc |-> pc,
     from |-> a, ret |-> "", bal |-> 0, res |-> "", req |-> 0]

Finish(o, r) == [o EXCEPT !.pc = "done", !.res = r]

Ids == DOMAIN ops

Slots == 1 .. MaxOps

JobKinds == {"withdrawal", "swapToWBAN", "swapToBAN"}

SetOp(i, o) == ops' = [ops EXCEPT ![i] = o]

Acquire(i, name) == locks[name] = 0 /\ locks' = [locks EXCEPT ![name] = i]

\* lock.release(): a lock is released by the lease that holds it
Release(i, name) ==
    locks' = [locks EXCEPT ![name] = IF locks[name] = i THEN 0 ELSE locks[name]]

---------------------------------------------------------------------------
(* Claim reads of the store.                                               *)

hasPendingClaim(banAddress) ==
    \E c \in pendingClaims : c[1] = toLowerCase(banAddress)

isClaimed(banAddress) == \E c \in claims : c[1] = toLowerCase(banAddress)

hasClaim(banAddress, blockchainAddress) ==
    <<toLowerCase(banAddress), blockchainAddress>> \in claims

\* faulty variant: the key is built from the address as given, not lowercased
containsUserWithdrawalRequest_rawKey(banAddress, timestamp) ==
    /\ banAddress \in DOMAIN withdrawals
    /\ zcount(withdrawals[banAddress], timestamp, timestamp) = 1

containsUserWithdrawalRequest(banAddress, timestamp) ==
    zcount(withdrawals[toLowerCase(banAddress)], timestamp, timestamp) = 1

swapToBanWasAlreadyDone(o) == zrank(swapsWbanToBan[o.bc], o.hash)

---------------------------------------------------------------------------
(* RedisUsersDepositsStorage.getUserAvailableBalance(from): acquire         *)
(* locks:ban-balance:<from> (from as given), GET ban-balance:<lowercase>,   *)
(* release in the finally block, return.  It is called by the processors   *)
(* and, nested, by storeUserSwapToWBan; o.ret says where it returns to.     *)

\* what a Redis command or a lock acquisition throws
Errors == {"RedisError", "LockError"}

Failed(o) == o.res \in Errors

\* the call threw: a store that made it goes to its finally block, a processor
\* fails
afterFailure(o) ==
    IF o.ret = "sw_store" THEN [o EXCEPT !.pc = "sw_rel"] ELSE Finish(o, o.res)

\* faulty variant: the processors do not compare the balance with the amount
afterBalance_unchecked(o) ==
    CASE o.ret = "w_check" -> [o EXCEPT !.pc = "w_send"]
      [] o.ret = "s_check" -> [o EXCEPT !.pc = "s_mint"]
      [] o.ret = "sw_store" ->
            [o EXCEPT !.pc = "sw_write", !.bal = o.bal - parseEther(o.amt)]
      [] OTHER -> [o EXCEPT !.pc = "done"]

\* what the caller does with the balance once the call has returned
afterBalance(o) ==
    CASE o.ret = "w_check" ->
            \* processWithdrawBAN: if (!availableBalance.gte(withdrawnAmount)) throw
            IF ~(o.bal >= parseEther(o.amt))
            THEN Finish(o, "InsufficientBalance")
            ELSE [o EXCEPT !.pc = "w_send"]
      [] o.ret = "s_check" ->
            \* processSwapToWBAN: if (!availableBalance.gte(amount)) throw
            IF ~(o.bal >= parseEther(o.amt))
            THEN Finish(o, "InsufficientBalance")
            ELSE [o EXCEPT !.pc = "s_mint"]
      [] o.ret = "sw_store" ->
            \* storeUserSwapToWBan: balance = (await getUserAvailableBalance()).sub(amount)
            [o EXCEPT !.pc = "sw_write", !.bal = o.bal - parseEther(o.amt)]
      [] OTHER ->
            \* the processor's result, or a direct call: the operation is over
            [o EXCEPT !.pc = "done"]

getUserAvailableBalance_acquire(i) ==
    /\ i \in Ids /\ ops[i].pc = "gb_acq"
    /\ Acquire(i, balanceLock(ops[i].from))
    /\ SetOp(i, [ops[i] EXCEPT !.pc = "gb_read"])
    /\ UNCHANGED <<aside, redisLedger, redisClaims, calls, outside>>

getUserAvailableBalance_get(i) ==
    /\ i \in Ids /\ ops[i].pc = "gb_read"
    /\ SetOp(i, [ops[i] EXCEPT !.pc = "gb_rel",
                               !.bal = balance[toLowerCase(ops[i].from)]])
    /\ UNCHANGED <<aside, redisLedger, redisClaims, locks, calls, outside>>

\* faulty variant: the finally block does not release the lock
getUserAvailableBalance_release_kept(i) ==
    /\ i \in Ids /\ ops[i].pc = "gb_rel"
    /\ SetOp(i, IF Failed(ops[i]) THEN afterFailure(ops[i]) ELSE afterBalance(ops[i]))
    /\ UNCHANGED <<aside, redisLedger, redisClaims, locks, calls, outside>>

getUserAvailableBalance_release(i) ==
    /\ i \in Ids /\ ops[i].pc = "gb_rel"
    /\ Release(i, balanceLock(ops[i].from))
    /\ SetOp(i, IF Failed(ops[i]) THEN afterFailure(ops[i]) ELSE afterBalance(ops[i]))
    /\ UNCHANGED <<aside, redisLedger, redisClaims, calls, outside>>

\* the call a processor makes for the balance of its result
resultBalance(o, r) ==
    [o EXCEPT !.pc = "gb_acq", !.from = o.a, !.ret = "result", !.res = r]

---------------------------------------------------------------------------
(* RedisUsersDepositsStorage.storeUserDeposit: deposits are stored by the   *)
(* native-chain listener, outside the job queue.                           *)

storeUserDeposit_acquire(i) ==
    /\ i \in Ids /\ ops[i].pc = "d_acq"
    /\ Acquire(i, balanceLock(toLowerCase(ops[i].a)))
    /\ SetOp(i, [ops[i] EXCEPT !.pc = "d_read"])
    /\ UNCHANGED <<aside, redisLedger, redisClaims, calls, outside>>

storeUserDeposit_get(i) ==
    /\ i \in Ids /\ ops[i].pc = "d_read"
    /\ SetOp(i, [ops[i] EXCEPT !.pc = "d_write",
                               !.bal = balance[toLowerCase(ops[i].a)] + ops[i].amt])
    /\ UNCHANGED <<aside, redisLedger, redisClaims, locks, calls, outside>>

storeUserDeposit_multi(i) ==
    LET o == ops[i]
        banAddress == toLowerCase(o.a)
    IN  /\ i \in Ids /\ o.pc = "d_write"
        /\ balance' = [balance EXCEPT ![banAddress] = o.bal]
        /\ deposits' = [deposits EXCEPT ![banAddress] = zadd(@, o.ts, o.hash)]
        /\ audit' = hset(o.hash, "deposit", o.amt, o.ts)
        /\ SetOp(i, [o EXCEPT !.pc = "d_rel"])
        /\ UNCHANGED <<aside, withdrawals, swapsBanToWban, swapsWbanToBan, redisClaims,
                       locks, calls, outside>>

storeUserDeposit_release(i) ==
    /\ i \in Ids /\ ops[i].pc = "d_rel"
    /\ Release(i, balanceLock(toLowerCase(ops[i].a)))
    /\ SetOp(i, Finish(ops[i], IF Failed(ops[i]) THEN ops[i].res ELSE "Stored"))
    /\ UNCHANGED <<aside, redisLedger, redisClaims, calls, outside>>

---------------------------------------------------------------------------
(* Service.processWithdrawBAN, run by Service.withdrawalProcessor.          *)

\* `!this.usersDepositsService.isClaimed(banWallet)` and `!...hasClaim(...)` are
\* not awaited: the condition negates a Promise object, which is truthy
\* whatever it resolves to.
notPromise(resolvesTo) == FALSE

processWithdrawBAN_validate(i) ==
    LET o == ops[i]
    IN  /\ i \in Ids /\ o.kind = "withdrawal" /\ o.pc = "run"
        /\ SetOp(i,
             IF containsUserWithdrawalRequest(o.a, o.ts)
             THEN Finish(o, "AlreadyProcessed")
             ELSE IF ~o.sigOk
             THEN Finish(o, "InvalidSignature")
             ELSE IF notPromise(isClaimed(o.a))
             THEN Finish(o, "Unclaimed")
             ELSE IF notPromise(hasClaim(o.a, o.bc))
             THEN Finish(o, "AnotherWallet")
             ELSE IF parseEther(o.amt) < 0
             THEN Finish(o, "NegativeAmount")
             ELSE [o EXCEPT !.pc = "gb_acq", !.from = o.a, !.ret = "w_check"])
        /\ UNCHANGED <<aside, redisLedger, redisClaims, locks, calls, outside>>

\* faulty variant: the send is made without looking at the hot wallet
eventuallySendBan_unfunded(i) ==
    LET o == ops[i]
        amount == parseEther(o.amt)
        hash == <<"w", nextHash>>
    IN  /\ i \in Ids /\ o.pc = "w_send"
        /\ hotWallet' = hotWallet - amount
        /\ sends' = sends \cup {[to |-> o.a, amount |-> amount,
                                 ts |-> o.ts, hash |-> hash]}
        /\ nextHash' = nextHash + 1
        /\ SetOp(i, [o EXCEPT !.hash = hash, !.pc = "w_acq"])
        /\ UNCHANGED <<aside, redisLedger, redisClaims, locks, calls, receipts>>

\* faulty variant: the empty-hash result is given to the first attempt (0), not
\* to attempt 1
eventuallySendBan_firstAttempt(i) ==
    LET o == ops[i]
        amount == parseEther(o.amt)
        hash == <<"w", nextHash>>
    IN  /\ i \in Ids /\ o.pc = "w_send"
        /\ IF hotWallet < amount
           THEN /\ Len(ops) < MaxOps
                /\ ops' = Append(
                     [ops EXCEPT ![i] =
                        IF o.attempt = 0
                        THEN resultBalance(o, "EmptyHash")
                        ELSE Finish(o, "Replaced")],
                     [o EXCEPT !.attempt = o.attempt + 1, !.pc = "queued"])
                /\ UNCHANGED <<aside, hotWallet, sends, nextHash>>
           ELSE /\ hotWallet' = hotWallet - amount
                /\ sends' = sends \cup {[to |-> o.a, amount |-> amount,
                                         ts |-> o.ts, hash |-> hash]}
                /\ nextHash' = nextHash + 1
                /\ SetOp(i, [o EXCEPT !.hash = hash, !.pc = "w_acq"])
        /\ UNCHANGED <<aside, redisLedger, redisClaims, locks, calls, receipts>>

\* Service.eventuallySendBan, and what processWithdrawBAN and
\* withdrawalProcessor make of its answer
eventuallySendBan(i) ==
    LET o == ops[i]
        amount == parseEther(o.amt)
        hash == <<"w", nextHash>>
    IN  /\ i \in Ids /\ o.pc = "w_send"
        /\ IF hotWallet < amount
           THEN /\ Len(ops) < MaxOps
                \* processingQueue.addBananoUserPendingWithdrawal(withdrawal)
                /\ ops' = Append(
                     [ops EXCEPT ![i] =
                        IF o.attempt = 1
                        THEN resultBalance(o, "EmptyHash")
                        ELSE Finish(o, "Replaced")],
                     [o EXCEPT !.attempt = o.attempt + 1, !.pc = "queued"])
                /\ UNCHANGED <<aside, hotWallet, sends, nextHash>>
           ELSE \* banano.sendBan(withdrawal.banWallet, amount)
                /\ hotWallet' = hotWallet - amount
                /\ sends' = sends \cup {[to |-> o.a, amount |-> amount,
                                         ts |-> o.ts, hash |-> hash]}
                /\ nextHash' = nextHash + 1
                /\ SetOp(i, [o EXCEPT !.hash = hash, !.pc = "w_acq"])
        /\ UNCHANGED <<aside, redisLedger, redisClaims, locks, calls, receipts>>

storeUserWithdrawal_acquire(i) ==
    /\ i \in Ids /\ ops[i].pc = "w_acq"
    /\ Acquire(i, balanceLock(toLowerCase(ops[i].a)))
    /\ SetOp(i, [ops[i] EXCEPT !.pc = "w_read"])
    /\ UNCHANGED <<aside, redisLedger, redisClaims, calls, outside>>

storeUserWithdrawal_get(i) ==
    /\ i \in Ids /\ ops[i].pc = "w_read"
    /\ SetOp(i, [ops[i] EXCEPT
                   !.pc = "w_write",
                   !.bal = balance[toLowerCase(ops[i].a)] - parseEther(ops[i].amt)])
    /\ UNCHANGED <<aside, redisLedger, redisClaims, locks, calls, outside>>

storeUserWithdrawal_multi(i) ==
    LET o == ops[i]
        banAddress == toLowerCase(o.a)
    IN  /\ i \in Ids /\ o.pc = "w_write"
        /\ balance' = [balance EXCEPT ![banAddress] = o.bal]
        /\ withdrawals' = [withdrawals EXCEPT ![banAddress] = zadd(@, o.ts, o.hash)]
        /\ audit' = hset(o.hash, "withdrawal", parseEther(o.amt), o.ts)
        /\ SetOp(i, [o EXCEPT !.pc = "w_rel"])
        /\ UNCHANGED <<aside, deposits, swapsBanToWban, swapsWbanToBan, redisClaims,
                       locks, calls, outside>>

\* the finally block releases the lock; withdrawalProcessor then asks for the
\* balance of its result
storeUserWithdrawal_release(i) ==
    /\ i \in Ids /\ ops[i].pc = "w_rel"
    /\ Release(i, balanceLock(toLowerCase(ops[i].a)))
    /\ SetOp(i, IF Failed(ops[i]) THEN Finish(ops[i], ops[i].res)
                 ELSE resultBalance(ops[i], "Ok"))
    /\ UNCHANGED <<aside, redisLedger, redisClaims, calls, outside>>

---------------------------------------------------------------------------
(* Service.processSwapToWBAN and RedisUsersDepositsStorage.storeUserSwapToWBan *)

processSwapToWBAN_validate(i) ==
    LET o == ops[i]
    IN  /\ i \in Ids /\ o.kind = "swapToWBAN" /\ o.pc = "run"
        /\ SetOp(i,
             IF ~o.sigOk
             THEN Finish(o, "InvalidSignature")
             ELSE IF ~hasClaim(o.a, o.bc)
             THEN Finish(o, "InvalidOwner")
             ELSE IF parseEther(o.amt) < 0
             THEN Finish(o, "NegativeAmount")
             ELSE [o EXCEPT !.pc = "gb_acq", !.from = o.a, !.ret = "s_check"])
        /\ UNCHANGED <<aside, redisLedger, redisClaims, locks, calls, outside>>

\* blockchain.createMintReceipt(blockchainWallet, amount)
createMintReceipt(i) ==
    LET o == ops[i]
        receipt == <<"r", nextHash>>
    IN  /\ i \in Ids /\ o.pc = "s_mint"
        /\ receipts' = receipts \cup {[receipt |-> receipt, bc |-> o.bc,
                                       amount |-> parseEther(o.amt)]}
        /\ nextHash' = nextHash + 1
        /\ SetOp(i, [o EXCEPT !.hash = receipt, !.pc = "sw_acq"])
        /\ UNCHANGED <<aside, redisLedger, redisClaims, locks, calls, hotWallet, sends>>

\* redlock.acquire([locks:swaps:ban-to-wban:<addr>]), then the nested
\* getUserAvailableBalance(banAddress), which takes and releases
\* locks:ban-balance:<addr> on its own
storeUserSwapToWBan_acquire(i) ==
    LET o == ops[i]
    IN  /\ i \in Ids /\ o.pc = "sw_acq"
        /\ Acquire(i, swapsLock(toLowerCase(o.a)))
        /\ SetOp(i, [o EXCEPT !.pc = "gb_acq", !.from = toLowerCase(o.a),
                              !.ret = "sw_store"])
        /\ UNCHANGED <<aside, redisLedger, redisClaims, calls, outside>>

storeUserSwapToWBan_multi(i) ==
    LET o == ops[i]
        banAddress == toLowerCase(o.a)
    IN  /\ i \in Ids /\ o.pc = "sw_write"
        /\ balance' = [balance EXCEPT ![banAddress] = o.bal]
        /\ swapsBanToWban' = [swapsBanToWban EXCEPT ![banAddress] = zadd(@, o.ts, o.hash)]
        /\ audit' = hset(o.hash, "swap-to-wban", parseEther(o.amt), o.ts)
        /\ SetOp(i, [o EXCEPT !.pc = "sw_rel"])
        /\ UNCHANGED <<aside, deposits, withdrawals, swapsWbanToBan, redisClaims,
                       locks, calls, outside>>

\* the finally block releases the swaps lock; the processor then asks for the
\* balance of its result with swap.from
storeUserSwapToWBan_release(i) ==
    /\ i \in Ids /\ ops[i].pc = "sw_rel"
    /\ Release(i, swapsLock(toLowerCase(ops[i].a)))
    /\ SetOp(i, IF Failed(ops[i]) THEN Finish(ops[i], ops[i].res)
                 ELSE resultBalance(ops[i], "Ok"))
    /\ UNCHANGED <<aside, redisLedger, redisClaims, calls, outside>>

---------------------------------------------------------------------------
(* Service.processSwapToBAN and RedisUsersDepositsStorage.storeUserSwapToBan *)

processSwapToBAN_contains(i) ==
    LET o == ops[i]
    IN  /\ i \in Ids /\ o.kind = "swapToBAN" /\ o.pc = "run"
        /\ SetOp(i, IF swapToBanWasAlreadyDone(o)
                    THEN resultBalance(o, "AlreadyDone")
                    ELSE [o EXCEPT !.pc = "b_acq"])
        /\ UNCHANGED <<aside, redisLedger, redisClaims, locks, calls, outside>>

\* redlock.acquire([locks:ban-balance:<swap.banWallet>]): the address as the
\* event carries it
storeUserSwapToBan_acquire(i) ==
    /\ i \in Ids /\ ops[i].pc = "b_acq"
    /\ Acquire(i, balanceLock(ops[i].a))
    /\ SetOp(i, [ops[i] EXCEPT !.pc = "b_again"])
    /\ UNCHANGED <<aside, redisLedger, redisClaims, calls, outside>>

\* faulty variant: the store trusts its caller's check and does not look again
storeUserSwapToBan_unchecked(i) ==
    /\ i \in Ids /\ ops[i].pc = "b_again"
    /\ SetOp(i, [ops[i] EXCEPT !.pc = "b_read", !.res = "Ok"])
    /\ UNCHANGED <<aside, redisLedger, redisClaims, locks, calls, outside>>

\* check "again" if the txn wasn't already processed
storeUserSwapToBan_again(i) ==
    /\ i \in Ids /\ ops[i].pc = "b_again"
    /\ SetOp(i, [ops[i] EXCEPT
                   !.pc = IF swapToBanWasAlreadyDone(ops[i]) THEN "b_rel" ELSE "b_read",
                   !.res = IF swapToBanWasAlreadyDone(ops[i]) THEN "AlreadyDone" ELSE "Ok"])
    /\ UNCHANGED <<aside, redisLedger, redisClaims, locks, calls, outside>>

storeUserSwapToBan_get(i) ==
    /\ i \in Ids /\ ops[i].pc = "b_read"
    /\ SetOp(i, [ops[i] EXCEPT
                   !.pc = "b_write",
                   !.bal = balance[toLowerCase(ops[i].a)] + parseEther(ops[i].amt)])
    /\ UNCHANGED <<aside, redisLedger, redisClaims, locks, calls, outside>>

storeUserSwapToBan_multi(i) ==
    LET o == ops[i]
    IN  /\ i \in Ids /\ o.pc = "b_write"
        /\ balance' = [balance EXCEPT ![toLowerCase(o.a)] = o.bal]
        /\ swapsWbanToBan' = [swapsWbanToBan EXCEPT ![o.bc] = zadd(@, o.ts * 1000, o.hash)]
        /\ audit' = hset(o.hash, "swap-to-ban", parseEther(o.amt), o.ts * 1000)
        /\ SetOp(i, [o EXCEPT !.pc = "b_rel"])
        /\ UNCHANGED <<aside, deposits, withdrawals, swapsBanToWban, redisClaims,
                       locks, calls, outside>>

storeUserSwapToBan_release(i) ==
    /\ i \in Ids /\ ops[i].pc = "b_rel"
    /\ Release(i, balanceLock(ops[i].a))
    /\ SetOp(i, IF Failed(ops[i]) THEN Finish(ops[i], ops[i].res)
                 ELSE resultBalance(ops[i], ops[i].res))
    /\ UNCHANGED <<aside, redisLedger, redisClaims, calls, outside>>

---------------------------------------------------------------------------
(* The processing queue: one job of a native address in flight at a time.  *)

IsJob(o) == o.kind \in JobKinds

InFlight(o) == IsJob(o) /\ o.pc \notin {"queued", "done"}

\* the worker takes a queued job of an address none of whose jobs is running
Start(i) ==
    /\ i \in Ids /\ ops[i].pc = "queued"
    /\ \A j \in Ids : InFlight(ops[j]) => toLowerCase(ops[j].a) # toLowerCase(ops[i].a)
    /\ SetOp(i, [ops[i] EXCEPT !.pc = "run"])
    /\ UNCHANGED <<aside, redisLedger, redisClaims, locks, calls, outside>>

\* Service.withdrawBAN: attempt 0
withdrawBAN(banWallet, amount, blockchainWallet, timestamp, sigOk) ==
    Op("withdrawal", banWallet, blockchainWallet, amount, timestamp,
       NoHash, sigOk, 0, "queued")

\* Service.swapToWBAN
swapToWBAN(from, amount, blockchainWallet, timestamp, sigOk) ==
    Op("swapToWBAN", from, blockchainWallet, amount, timestamp,
       NoHash, sigOk, 0, "queued")

\* Service.swapToBAN(swap): a redemption event seen by the chain scanner
swapToBAN(swap) ==
    Op("swapToBAN", swap.banWallet, swap.blockchainWallet, swap.amount,
       swap.timestamp, swap.hash, TRUE, 0, "queued")

\* a deposit notification of the native chain; its hash is set on arrival
userDeposit(banAddress, amount, timestamp) ==
    Op("deposit", banAddress, "bc_b", amount, timestamp, NoHash, TRUE, 0, "d_acq")

\* Request number r of a list arrives.  Neither the queue nor the store keeps
\* requests in arrival order, so requests are taken in list order (a request
\* may arrive more than once).
Submit(list, r) ==
    /\ Len(ops) < MaxOps
    /\ r \in DOMAIN list
    /\ \A j \in Ids : ops[j].req <= r
    /\ ops' = Append(ops, [list[r] EXCEPT
                             !.req = r,
                             !.hash = IF list[r].kind = "deposit"
                                      THEN <<"d", Len(ops) + 1>>
                                      ELSE list[r].hash])
    /\ UNCHANGED <<aside, redisLedger, redisClaims, locks, calls, outside>>

\* the operator refills the hot wallet
Refill ==
    /\ hotWallet < parseEther(MaxHot)
    /\ hotWallet' = parseEther(MaxHot)
    /\ UNCHANGED <<aside, redisLedger, redisClaims, locks, ops, calls, sends, receipts, nextHash>>

---------------------------------------------------------------------------
(* The requests of the model.                                              *)

RECURSIVE SeqOf(_)
SeqOf(S) ==
    IF S = {} THEN <<>>
    ELSE LET x == CHOOSE x \in S : TRUE IN <<x>> \o SeqOf(S \ {x})

\* redemption events of the EVM chain: a hash names one event
Events ==
    {[hash |-> <<"e", 1>>, banWallet |-> "BAN_A", blockchainWallet |-> "bc_b",
      amount |-> MaxAmount, timestamp |-> 1],
     [hash |-> <<"e", 2>>, banWallet |-> "ban_a", blockchainWallet |-> "bc_b",
      amount |-> 1, timestamp |-> 1]}

Claimants == {"ban_a", "BAN_A"}

WithdrawalRequests ==
    {withdrawBAN(a, amount, "bc_b", t, TRUE) :
        a \in Claimants, amount \in 1 .. MaxAmount, t \in 1 .. MaxTs}
    \cup {withdrawBAN("ban_a", 1, "bc_c", 1, TRUE),
          withdrawBAN("ban_z", 0, "bc_b", 1, TRUE),
          withdrawBAN("ban_a", 1, "bc_b", 1, FALSE),
          withdrawBAN("ban_a", -1, "bc_b", 1, TRUE),
          withdrawBAN("ban_a", 0, "bc_b", 1, TRUE)}

SwapToWBANRequests ==
    {swapToWBAN(a, amount, "bc_b", 1, TRUE) : a \in Claimants, amount \in 1 .. MaxAmount}
    \cup {swapToWBAN("ban_a", 1, "bc_c", 1, TRUE),
          swapToWBAN("ban_a", 1, "bc_b", 1, FALSE),
          swapToWBAN("ban_a", -1, "bc_b", 1, TRUE)}

SwapToBANRequests == {swapToBAN(e) : e \in Events}

DepositRequests ==
    {userDeposit("ban_a", 1, 1), userDeposit("ban_a", BaseUnitsPerBAN, 1)}

AllRequests ==
    SeqOf(WithdrawalRequests \cup SwapToWBANRequests \cup SwapToBANRequests
            \cup DepositRequests)

InitialDeposit == <<"d", 0>>

Init ==
    /\ balance = [a \in Native |-> IF a = "ban_a" THEN parseEther(InitBAN) ELSE 0]
    /\ deposits = [a \in Native |-> IF a = "ban_a" THEN {<<InitialDeposit, 0>>} ELSE {}]
    /\ withdrawals = [a \in Native |-> {}]
    /\ swapsBanToWban = [a \in Native |-> {}]
    /\ swapsWbanToBan = [b \in Blockchain |-> {}]
    /\ audit = {[key |-> InitialDeposit, type |-> "deposit",
                 amount |-> parseEther(InitBAN), ts |-> 0]}
    /\ pendingClaims = {}
    /\ claims = {<<"ban_a", "bc_b">>}
    /\ locks = [n \in LockNames |-> 0]
    /\ ops = <<>>
    /\ calls = <<>>
    /\ hotWallet = 0
    /\ sends = {}
    /\ receipts = {}
    /\ nextHash = 1
    /\ latestBlock = Null
    /\ setters = <<>>
    /\ history = [call |-> "", list |-> <<>>]

\* the steps of the store and of the job processors
LedgerStep(i) ==
    \/ getUserAvailableBalance_acquire(i)
    \/ getUserAvailableBalance_get(i)
    \/ getUserAvailableBalance_release(i)
    \/ storeUserDeposit_acquire(i)
    \/ storeUserDeposit_get(i)
    \/ storeUserDeposit_multi(i)
    \/ storeUserDeposit_release(i)
    \/ processWithdrawBAN_validate(i)
    \/ eventuallySendBan(i)
    \/ storeUserWithdrawal_acquire(i)
    \/ storeUserWithdrawal_get(i)
    \/ storeUserWithdrawal_multi(i)
    \/ storeUserWithdrawal_release(i)
    \/ processSwapToWBAN_validate(i)
    \/ createMintReceipt(i)
    \/ storeUserSwapToWBan_acquire(i)
    \/ storeUserSwapToWBan_multi(i)
    \/ storeUserSwapToWBan_release(i)
    \/ processSwapToBAN_contains(i)
    \/ storeUserSwapToBan_acquire(i)
    \/ storeUserSwapToBan_again(i)
    \/ storeUserSwapToBan_get(i)
    \/ storeUserSwapToBan_multi(i)
    \/ storeUserSwapToBan_release(i)

\* jobs go through the queue, one per native address at a time; deposits
\* arrive outside it
Next ==
    \/ \E r \in 1 .. Len(AllRequests) : Submit(AllRequests, r)
    \/ Refill
    \/ \E i \in Slots : Start(i) \/ LedgerStep(i)

Spec == Init /\ [][Next]_vars

\* A redemption event may reach processSwapToBAN several times, one after the
\* other or at once: the deliveries are started without waiting for each other.
Deliver(i) ==
    /\ i \in Ids /\ ops[i].pc = "queued"
    /\ SetOp(i, [ops[i] EXCEPT !.pc = "run"])
    /\ UNCHANGED <<aside, redisLedger, redisClaims, locks, calls, outside>>

DeliveryRequests == SeqOf(SwapToBANRequests \cup {userDeposit("ban_a", 1, 1)})

NextDeliveries ==
    \/ \E r \in 1 .. Len(DeliveryRequests) : Submit(DeliveryRequests, r)
    \/ \E i \in Slots :
        \/ Deliver(i)
        \/ getUserAvailableBalance_acquire(i)
        \/ getUserAvailableBalance_get(i)
        \/ getUserAvailableBalance_release(i)
        \/ storeUserDeposit_acquire(i)
        \/ storeUserDeposit_get(i)
        \/ storeUserDeposit_multi(i)
        \/ storeUserDeposit_release(i)
        \/ processSwapToBAN_contains(i)
        \/ storeUserSwapToBan_acquire(i)
        \/ storeUserSwapToBan_again(i)
        \/ storeUserSwapToBan_get(i)
        \/ storeUserSwapToBan_multi(i)
        \/ storeUserSwapToBan_release(i)

SpecDeliveries == Init /\ [][NextDeliveries]_vars

TypeOK ==
    /\ \A a \in Native : balance[a] \in Int
    /\ Len(ops) <= MaxOps

---------------------------------------------------------------------------
(* Service.claim and the claim operations of the store.                    *)

Call(banWallet, blockchainWallet, sigOk, blacklisted) ==
    [a |-> banWallet, bc |-> blockchainWallet, sigOk |-> sigOk,
     blacklisted |-> blacklisted, pc |-> "c_hasClaim", res |-> ""]

CallIds == DOMAIN calls

CallSlots == 1 .. MaxCalls

SetCall(c, r, pc) == calls' = [calls EXCEPT ![c].res = r, ![c].pc = pc]

\* faulty variant: the blacklist is looked up before the signature is verified
claim_blacklistFirst(banWallet, blockchainWallet, sigOk, blacklisted) ==
    LET c == Call(banWallet, blockchainWallet, sigOk, blacklisted)
    IN  /\ Len(calls) < MaxCalls
        /\ calls' = Append(calls,
             IF blacklisted THEN [c EXCEPT !.pc = "done", !.res = "Blacklisted"]
             ELSE IF ~sigOk THEN [c EXCEPT !.pc = "done", !.res = "InvalidSignature"]
             ELSE c)
        /\ UNCHANGED <<aside, redisLedger, redisClaims, locks, ops, outside>>

\* claim(): checkSignature, then bananoWalletsBlacklist.isBlacklisted; both
\* depend on the request alone
claim(banWallet, blockchainWallet, sigOk, blacklisted) ==
    LET c == Call(banWallet, blockchainWallet, sigOk, blacklisted)
    IN  /\ Len(calls) < MaxCalls
        /\ calls' = Append(calls,
             IF ~sigOk THEN [c EXCEPT !.pc = "done", !.res = "InvalidSignature"]
             ELSE IF blacklisted THEN [c EXCEPT !.pc = "done", !.res = "Blacklisted"]
             ELSE c)
        /\ UNCHANGED <<aside, redisLedger, redisClaims, locks, ops, outside>>

\* if (await usersDepositsService.hasClaim(banWallet, blockchainWallet))
claim_hasClaim(c) ==
    /\ c \in CallIds /\ calls[c].pc = "c_hasClaim"
    /\ IF hasClaim(calls[c].a, calls[c].bc)
       THEN SetCall(c, "AlreadyDone", "done")
       ELSE SetCall(c, "", "c_hasPending")
    /\ UNCHANGED <<aside, redisLedger, redisClaims, locks, ops, outside>>

\* if (!(await usersDepositsService.hasPendingClaim(banWallet)))
claim_hasPendingClaim(c) ==
    /\ c \in CallIds /\ calls[c].pc = "c_hasPending"
    /\ IF ~hasPendingClaim(calls[c].a)
       THEN SetCall(c, "", "c_store")
       ELSE SetCall(c, "InvalidOwner", "done")
    /\ UNCHANGED <<aside, redisLedger, redisClaims, locks, ops, outside>>

\* storePendingClaim: MULTI SET key "1", EXPIRE key 300; false when Redis throws
claim_storePendingClaim(c) ==
    /\ c \in CallIds /\ calls[c].pc = "c_store"
    /\ \/ /\ pendingClaims' = pendingClaims
                \cup {<<toLowerCase(calls[c].a), calls[c].bc>>}
          /\ SetCall(c, "Ok", "done")
       \/ /\ UNCHANGED pendingClaims
          /\ SetCall(c, "Error", "done")
    /\ UNCHANGED <<aside, redisLedger, claims, locks, ops, outside>>

\* faulty variant: the confirmed claim takes the place of the address's earlier claim
confirmClaim_replacing(banAddress) ==
    /\ hasPendingClaim(banAddress)
    /\ \E key \in {p \in pendingClaims : p[1] = toLowerCase(banAddress)} :
          claims' = {k \in claims : k[1] # toLowerCase(banAddress)} \cup {key}
    /\ UNCHANGED <<aside, redisLedger, pendingClaims, locks, ops, calls, outside>>

\* faulty variant: every pending claim of the address is promoted
confirmClaim_every(banAddress) ==
    /\ hasPendingClaim(banAddress)
    /\ claims' = claims \cup {p \in pendingClaims : p[1] = toLowerCase(banAddress)}
    /\ UNCHANGED <<aside, redisLedger, pendingClaims, locks, ops, calls, outside>>

\* confirmClaim: KEYS claims:pending:<addr>:*, take the first (KEYS promises no
\* order), SET the key without ":pending".  Its caller, the deposit listener,
\* calls it when hasPendingClaim(banAddress).
confirmClaim(banAddress) ==
    /\ hasPendingClaim(banAddress)
    /\ \E key \in {p \in pendingClaims : p[1] = toLowerCase(banAddress)} :
          claims' = claims \cup {key}
    /\ UNCHANGED <<aside, redisLedger, pendingClaims, locks, ops, calls, outside>>

\* the TTL of a pending claim (5 minutes) runs out
expire(key) ==
    /\ key \in pendingClaims
    /\ pendingClaims' = pendingClaims \ {key}
    /\ UNCHANGED <<aside, redisLedger, claims, locks, ops, calls, outside>>

ClaimWallets == {"BAN_A", "ban_z"}

\* the store right after construction
InitEmpty ==
    /\ balance = [a \in Native |-> 0]
    /\ deposits = [a \in Native |-> {}]
    /\ withdrawals = [a \in Native |-> {}]
    /\ swapsBanToWban = [a \in Native |-> {}]
    /\ swapsWbanToBan = [b \in Blockchain |-> {}]
    /\ audit = {}
    /\ pendingClaims = {}
    /\ claims = {}
    /\ locks = [n \in LockNames |-> 0]
    /\ ops = <<>>
    /\ calls = <<>>
    /\ hotWallet = 0
    /\ sends = {}
    /\ receipts = {}
    /\ nextHash = 1
    /\ latestBlock = Null
    /\ setters = <<>>
    /\ history = [call |-> "", list |-> <<>>]

NextClaims ==
    \/ \E a \in ClaimWallets, b \in Blockchain, sigOk \in BOOLEAN, blacklisted \in BOOLEAN :
          claim(a, b, sigOk, blacklisted)
    \/ \E c \in CallSlots :
          \/ claim_hasClaim(c)
          \/ claim_hasPendingClaim(c)
          \/ claim_storePendingClaim(c)
    \/ \E a \in Native : confirmClaim(a)
    \/ \E a \in Native, b \in Blockchain : expire(<<a, b>>)

SpecClaims == InitEmpty /\ [][NextClaims]_vars

\* the claim machine next to a small ledger traffic of one native address
ClaimLedgerRequests ==
    <<userDeposit("ban_a", BaseUnitsPerBAN, 1),
      withdrawBAN("BAN_A", 1, "bc_b", 1, TRUE),
      swapToWBAN("ban_a", 1, "bc_c", 1, TRUE),
      swapToBAN([hash |-> <<"e", 1>>, banWallet |-> "ban_a",
                 blockchainWallet |-> "bc_b", amount |-> 1, timestamp |-> 1])>>

NextClaimsLedger ==
    \/ \E b \in Blockchain : claim("BAN_A", b, TRUE, FALSE)
    \/ \E c \in CallSlots :
          \/ claim_hasClaim(c)
          \/ claim_hasPendingClaim(c)
          \/ claim_storePendingClaim(c)
    \/ confirmClaim("ban_a")
    \/ \E b \in Blockchain : expire(<<"ban_a", b>>)
    \/ \E r \in 1 .. Len(ClaimLedgerRequests) : Submit(ClaimLedgerRequests, r)
    \/ Refill
    \/ \E i \in Slots : Start(i) \/ LedgerStep(i)

SpecClaimsLedger == InitEmpty /\ [][NextClaimsLedger]_vars

---------------------------------------------------------------------------
(* Leases: a lock is a Redis key with a TTL (1 s, 30 s for deposits).      *)

\* the TTL given to redlock.acquire runs out while the lock is held
expireLock(name) ==
    /\ locks[name] # 0
    /\ locks' = [locks EXCEPT ![name] = 0]
    /\ UNCHANGED <<aside, redisLedger, redisClaims, ops, calls, outside>>

LeaseRequests ==
    <<userDeposit("ban_a", 1, 1),
      withdrawBAN("ban_a", 1, "bc_b", 1, TRUE),
      swapToWBAN("ban_a", 1, "bc_b", 1, TRUE),
      swapToBAN([hash |-> <<"e", 1>>, banWallet |-> "ban_a",
                 blockchainWallet |-> "bc_b", amount |-> 1, timestamp |-> 1])>>

NextLease ==
    \/ \E r \in 1 .. Len(LeaseRequests) : Submit(LeaseRequests, r)
    \/ Refill
    \/ \E i \in Slots : Start(i) \/ LedgerStep(i)
    \/ \E name \in LockNames : expireLock(name)

SpecLease == Init /\ [][NextLease]_vars

---------------------------------------------------------------------------
(* Failures inside the store: a Redis command or a lock acquisition throws. *)

\* where the try block of each store leaves to when a command in it throws
FinallyOf(pc) ==
    CASE pc = "gb_read" -> "gb_rel"
      [] pc \in {"d_read", "d_write"} -> "d_rel"
      [] pc \in {"w_read", "w_write"} -> "w_rel"
      [] pc = "sw_write" -> "sw_rel"
      [] pc \in {"b_again", "b_read", "b_write"} -> "b_rel"

InTry == {"gb_read", "d_read", "d_write", "w_read", "w_write", "sw_write",
          "b_again", "b_read", "b_write"}

AtAcquire == {"gb_acq", "d_acq", "w_acq", "sw_acq", "b_acq"}

\* faulty variant: the error leaves the store without passing a finally block
redisFails_noFinally(i) ==
    /\ i \in Ids /\ ops[i].pc \in InTry
    /\ SetOp(i, Finish(ops[i], "RedisError"))
    /\ UNCHANGED <<aside, redisLedger, redisClaims, locks, calls, outside>>

\* redis.get, zrank or multi().exec() throws inside a try block: nothing is
\* written, the finally block runs next
redisFails(i) ==
    /\ i \in Ids /\ ops[i].pc \in InTry
    /\ SetOp(i, [ops[i] EXCEPT !.pc = FinallyOf(ops[i].pc), !.res = "RedisError"])
    /\ UNCHANGED <<aside, redisLedger, redisClaims, locks, calls, outside>>

\* redlock.acquire gives up (retryCount attempts) and throws before the try
\* block is entered
acquireFails(i) ==
    /\ i \in Ids /\ ops[i].pc \in AtAcquire
    /\ SetOp(i, IF ops[i].pc = "gb_acq"
                THEN afterFailure([ops[i] EXCEPT !.res = "LockError"])
                ELSE Finish(ops[i], "LockError"))
    /\ UNCHANGED <<aside, redisLedger, redisClaims, locks, calls, outside>>

NextFailures ==
    \/ \E r \in 1 .. Len(LeaseRequests) : Submit(LeaseRequests, r)
    \/ Refill
    \/ \E i \in Slots :
          \/ Start(i)
          \/ LedgerStep(i)
          \/ redisFails(i)
          \/ acquireFails(i)

SpecFailures == Init /\ [][NextFailures]_vars

---------------------------------------------------------------------------
(* The chain checkpoint blockchain:blocks:latest.                          *)

\* config.BlockchainWalletPendingTransactionsStartFromBlock
StartFromBlock == 1

SetterIds == DOMAIN setters

SetterSlots == 1 .. MaxSetters

\* what getLastBlockchainBlockProcessed answers for a stored value
lastBlockProcessed(rawBlockValue) ==
    IF rawBlockValue = Null THEN StartFromBlock ELSE rawBlockValue

\* a call of setLastBlockchainBlockProcessed(block) begins
setLastBlockchainBlockProcessed(block) ==
    /\ Len(setters) < MaxSetters
    /\ setters' = Append(setters, [block |-> block, last |-> Null, pc |-> "get"])
    /\ UNCHANGED <<redisLedger, redisClaims, locks, ops, calls, outside,
                   latestBlock, history>>

\* const lastBlockProcessed = await this.getLastBlockchainBlockProcessed()
getLastBlockchainBlockProcessed(k) ==
    /\ k \in SetterIds /\ setters[k].pc = "get"
    /\ setters' = [setters EXCEPT ![k].last = lastBlockProcessed(latestBlock),
                                  ![k].pc = "set"]
    /\ UNCHANGED <<redisLedger, redisClaims, locks, ops, calls, outside,
                   latestBlock, history>>

\* if (block > lastBlockProcessed) this.redis.set("blockchain:blocks:latest", block)
setLastBlockchainBlockProcessed_set(k) ==
    /\ k \in SetterIds /\ setters[k].pc = "set"
    /\ latestBlock' = IF setters[k].block > setters[k].last
                      THEN setters[k].block
                      ELSE latestBlock
    /\ setters' = [setters EXCEPT ![k].pc = "done"]
    /\ UNCHANGED <<redisLedger, redisClaims, locks, ops, calls, outside, history>>

NextCheckpoint ==
    \/ \E block \in 0 .. MaxBlock : setLastBlockchainBlockProcessed(block)
    \/ \E k \in SetterSlots :
          \/ getLastBlockchainBlockProcessed(k)
          \/ setLastBlockchainBlockProcessed_set(k)

SpecCheckpoint == InitEmpty /\ [][NextCheckpoint]_vars

---------------------------------------------------------------------------
(* History reads: getDeposits, getWithdrawals, getSwaps.                   *)

\* the order of members with equal scores (lexicographic in Redis)
MemberRank(member) ==
    (CASE member[1] = "d" -> 0 [] member[1] = "e" -> 1
       [] member[1] = "r" -> 2 [] OTHER -> 3) * (MaxOps + 1) + member[2]

\* e comes before f in ZREVRANGEBYSCORE: higher score first
Before(e, f) ==
    \/ e[2] > f[2]
    \/ e[2] = f[2] /\ MemberRank(e[1]) >= MemberRank(f[1])

\* ZREVRANGEBYSCORE key +inf -inf LIMIT 0 count: the members, highest score first
RECURSIVE zrevrangebyscore(_, _)
zrevrangebyscore(zset, count) ==
    IF zset = {} \/ count = 0 THEN <<>>
    ELSE LET e == CHOOSE e \in zset : \A f \in zset : Before(e, f)
         IN  <<e[1]>> \o zrevrangebyscore(zset \ {e}, count - 1)

\* HGETALL audit:<hash>: an empty object when there is no such key
hgetall(hash) ==
    IF \E r \in audit : r.key = hash
    THEN CHOOSE r \in audit : r.key = hash
    ELSE [key |-> hash, type |-> "", amount |-> 0, ts |-> 0]

\* Promise.all(hashes.map(hash => hgetall(audit:<hash>)))
auditsOf(hashes) == [k \in 1 .. Len(hashes) |-> hgetall(hashes[k])]

getDeposits(banAddress) ==
    /\ history' = [call |-> "getDeposits",
                   list |-> auditsOf(zrevrangebyscore(deposits[toLowerCase(banAddress)], LIMIT))]
    /\ UNCHANGED <<redisLedger, redisClaims, locks, ops, calls, outside,
                   latestBlock, setters>>

getWithdrawals(banAddress) ==
    /\ history' = [call |-> "getWithdrawals",
                   list |-> auditsOf(zrevrangebyscore(withdrawals[toLowerCase(banAddress)], LIMIT))]
    /\ UNCHANGED <<redisLedger, redisClaims, locks, ops, calls, outside,
                   latestBlock, setters>>

\* banToWBAN.concat(wbanToBAN)
getSwaps(blockchainAddress, banAddress) ==
    LET banToWBAN == zrevrangebyscore(swapsBanToWban[toLowerCase(banAddress)], LIMIT)
        wbanToBAN == zrevrangebyscore(swapsWbanToBan[blockchainAddress], LIMIT)
    IN  /\ history' = [call |-> "getSwaps", list |-> auditsOf(banToWBAN \o wbanToBAN)]
        /\ UNCHANGED <<redisLedger, redisClaims, locks, ops, calls, outside,
                       latestBlock, setters>>

HistoryRequests ==
    <<userDeposit("ban_a", 1, 1),
      userDeposit("ban_a", 1, 2),
      swapToWBAN("ban_a", 1, "bc_b", 2, TRUE),
      withdrawBAN("ban_a", 1, "bc_b", 1, TRUE),
      swapToBAN([hash |-> <<"e", 1>>, banWallet |-> "ban_a",
                 blockchainWallet |-> "bc_b", amount |-> 1, timestamp |-> 1]),
      swapToBAN([hash |-> <<"e", 2>>, banWallet |-> "ban_a",
                 blockchainWallet |-> "bc_b", amount |-> 1, timestamp |-> 2])>>

NextHistory ==
    \/ \E r \in 1 .. Len(HistoryRequests) : Submit(HistoryRequests, r)
    \/ Refill
    \/ \E i \in Slots : Start(i) \/ LedgerStep(i)
    \/ getDeposits("BAN_A")
    \/ getWithdrawals("BAN_A")
    \/ getSwaps("bc_b", "BAN_A")

SpecHistory == Init /\ [][NextHistory]_vars

---------------------------------------------------------------------------
(* The reverse index getBanAddressesForBlockchainAddress.  A Redis key is   *)
(* the sequence of its segments between colons.                            *)

\* claims:<addr>:<bc>
claimKey(c) == <<"claims", c[1], c[2]>>

\* claims:pending:<addr>:<bc>
pendingClaimKey(c) == <<"claims", "pending", c[1], c[2]>>

claimKeys == {claimKey(c) : c \in claims} \cup {pendingClaimKey(c) : c \in pendingClaims}

\* KEYS claims:*:<bc>: the * of a glob pattern spans colons
keys(blockchainAddress) ==
    {k \in claimKeys : Len(k) >= 3 /\ k[1] = "claims" /\ k[Len(k)] = blockchainAddress}

\* the orders KEYS may answer in
Orders(S) ==
    {s \in [1 .. Cardinality(S) -> S] :
        \A i, j \in 1 .. Cardinality(S) : i # j => s[i] # s[j]}

\* regexp.exec(key) of /claims:(?<banAddress>.*):<bc>/g.  The flag g makes
\* the search start at regexp.lastIndex, which a match leaves at its end and a
\* failure resets to 0.  No match is modelled as the empty banAddress, which
\* is what the map callback turns it into.
exec(key, blockchainAddress, lastIndex) ==
    LET ends(p) == {q \in p + 2 .. Len(key) : key[q] = blockchainAddress}
        starts == {p \in lastIndex + 1 .. Len(key) :
                      key[p] = "claims" /\ ends(p) # {}}
    IN  IF starts = {}
        THEN [banAddress |-> <<>>, lastIndex |-> 0]
        ELSE LET p == CHOOSE p \in starts : \A r \in starts : p <= r
                 q == CHOOSE q \in ends(p) : \A r \in ends(p) : q >= r
             IN  [banAddress |-> SubSeq(key, p + 1, q - 1), lastIndex |-> q]

\* claims.map(claim => regexp.exec(claim)...).filter(banAddress => banAddress !== "")
\* with the one regexp object shared by all the keys
RECURSIVE banAddressesOf(_, _, _)
banAddressesOf(list, blockchainAddress, lastIndex) ==
    IF list = <<>> THEN <<>>
    ELSE LET m == exec(Head(list), blockchainAddress, lastIndex)
         IN  (IF m.banAddress = <<>> THEN <<>> ELSE <<m.banAddress>>)
                \o banAddressesOf(Tail(list), blockchainAddress, m.lastIndex)

getBanAddressesForBlockchainAddress(blockchainAddress) ==
    /\ \E list \in Orders(keys(blockchainAddress)) :
          history' = [call |-> "getBanAddressesForBlockchainAddress",
                      of |-> blockchainAddress,
                      list |-> banAddressesOf(list, blockchainAddress, 0)]
    /\ UNCHANGED <<redisLedger, redisClaims, locks, ops, calls, outside,
                   latestBlock, setters>>

NextReverseIndex ==
    \/ \E a \in ClaimWallets, b \in Blockchain, sigOk \in BOOLEAN, blacklisted \in BOOLEAN :
          claim(a, b, sigOk, blacklisted)
    \/ \E c \in CallSlots :
          \/ claim_hasClaim(c)
          \/ claim_hasPendingClaim(c)
          \/ claim_storePendingClaim(c)
    \/ \E a \in Native : confirmClaim(a)
    \/ \E a \in Native, b \in Blockchain : expire(<<a, b>>)
    \/ \E b \in Blockchain : getBanAddressesForBlockchainAddress(b)

SpecReverseIndex == InitEmpty /\ [][NextReverseIndex]_vars

---------------------------------------------------------------------------
(* The store called directly: its operations are public methods, and       *)
(* nothing in them asks for the queue.                                     *)

\* storeUserWithdrawal(banAddress, parseEther(amount), timestamp, hash); its
\* caller reads the balance afterwards, as withdrawalProcessor does
storeUserWithdrawal(banAddress, amount, timestamp, hash) ==
    Op("withdrawal", banAddress, "bc_b", amount, timestamp, hash, TRUE, 0, "w_acq")

\* storeUserSwapToWBan(banAddress, blockchainAddress, parseEther(amount),
\* timestamp, receipt, uuid)
storeUserSwapToWBan(banAddress, blockchainAddress, amount, timestamp, receipt) ==
    Op("swapToWBAN", banAddress, blockchainAddress, amount, timestamp, receipt,
       TRUE, 0, "sw_acq")

\* storeUserSwapToBan(swap)
storeUserSwapToBan(swap) ==
    Op("swapToBAN", swap.banWallet, swap.blockchainWallet, swap.amount,
       swap.timestamp, swap.hash, TRUE, 0, "b_acq")

\* getUserAvailableBalance(from)
getUserAvailableBalance(from) ==
    Op("balance", from, "bc_b", 0, 0, NoHash, TRUE, 0, "gb_acq")

StoreRequests ==
    <<userDeposit("ban_a", 1, 1),
      storeUserWithdrawal("ban_a", 1, 1, <<"w", 1>>),
      storeUserWithdrawal("BAN_A", 1, 1, <<"w", 2>>),
      storeUserSwapToWBan("ban_a", "bc_b", 1, 1, <<"r", 1>>),
      storeUserSwapToBan([hash |-> <<"e", 1>>, banWallet |-> "ban_a",
                          blockchainWallet |-> "bc_b", amount |-> 1, timestamp |-> 1]),
      getUserAvailableBalance("BAN_A")>>

\* the steps of the store operations
StoreStep(i) ==
    \/ getUserAvailableBalance_acquire(i)
    \/ getUserAvailableBalance_get(i)
    \/ getUserAvailableBalance_release(i)
    \/ storeUserDeposit_acquire(i)
    \/ storeUserDeposit_get(i)
    \/ storeUserDeposit_multi(i)
    \/ storeUserDeposit_release(i)
    \/ storeUserWithdrawal_acquire(i)
    \/ storeUserWithdrawal_get(i)
    \/ storeUserWithdrawal_multi(i)
    \/ storeUserWithdrawal_release(i)
    \/ storeUserSwapToWBan_acquire(i)
    \/ storeUserSwapToWBan_multi(i)
    \/ storeUserSwapToWBan_release(i)
    \/ storeUserSwapToBan_acquire(i)
    \/ storeUserSwapToBan_again(i)
    \/ storeUserSwapToBan_get(i)
    \/ storeUserSwapToBan_multi(i)
    \/ storeUserSwapToBan_release(i)

NextStore ==
    \/ \E r \in 1 .. Len(StoreRequests) : Submit(StoreRequests, r)
    \/ \E i \in Slots : StoreStep(i)

SpecStore == Init /\ [][NextStore]_vars

\* the store operations with their failures; a step of an operation that can
\* be taken is taken in the end (every await that resolves is resumed), while
\* nothing obliges an acquisition to give up or a command to fail
NextStoreFair ==
    \/ \E r \in 1 .. Len(StoreRequests) : Submit(StoreRequests, r)
    \/ \E i \in Slots :
          \/ StoreStep(i)
          \/ acquireFails(i)
          \/ redisFails(i)

SpecStoreFair ==
    Init /\ [][NextStoreFair]_vars /\ \A i \in Slots : WF_vars(StoreStep(i))

---------------------------------------------------------------------------
(* Properties of the ledger under the serializing queue (Spec).            *)

DebitKinds == {"withdrawal", "swapToWBAN"}

\* the operations on native address a, and the requests among them (a pending
\* withdrawal's successors carry attempt > 0)
OpsOn(a) == {k \in Ids : toLowerCase(ops[k].a) = a}

RequestsOn(a) == {k \in OpsOn(a) : ops[k].attempt = 0}

\* outcomes that end a request; a withdrawal that went pending is continued by
\* its successor
Superseded == {"Replaced", "EmptyHash"}

SendsOf(a, t) == {s \in sends : toLowerCase(s.to) = a /\ s.ts = t}

WritingWithdrawal(a, t) ==
    \E k \in OpsOn(a) :
        /\ ops[k].kind = "withdrawal" /\ ops[k].ts = t
        /\ ops[k].pc \in {"w_acq", "w_read", "w_write"}

\* C1 (Balance non-negativity): in every reachable state the stored balance of
\* every native address is >= 0.
C1_BalanceNonNegative == \A a \in Native : balance[a] >= 0

\* C3 (Withdrawal uniqueness): the withdrawal requests carrying one
\* (native_addr, timestamp_ms) produce at most one native-coin send, and once
\* the sending job has stored its withdrawal there is exactly one withdrawal
\* record for each send.
C3_WithdrawalUniqueness ==
    \A a \in Native, t \in 1 .. MaxTs :
        /\ Cardinality(SendsOf(a, t)) <= 1
        /\ ~WritingWithdrawal(a, t)
             => zcount(withdrawals[a], t, t) = Cardinality(SendsOf(a, t))

\* C3 witness: a request went pending, its successor and a second request with
\* the same (native_addr, timestamp_ms) have both run, and one send was made.
C3_Witness ==
    \E i, j, k \in Ids :
        /\ i < j /\ j < k
        /\ \A n \in {i, j, k} : ops[n].kind = "withdrawal" /\ ops[n].pc = "done"
        /\ toLowerCase(ops[i].a) = toLowerCase(ops[k].a)
        /\ ops[i].ts = ops[k].ts /\ ops[j].ts = ops[i].ts
        /\ toLowerCase(ops[j].a) = toLowerCase(ops[i].a)
        /\ ops[i].attempt = 0 /\ ops[i].res = "Replaced"
        /\ ops[j].attempt = 1 /\ ops[k].attempt = 0
        /\ "AlreadyProcessed" \in {ops[j].res, ops[k].res}
        /\ Cardinality(SendsOf(toLowerCase(ops[i].a), ops[i].ts)) = 1
        /\ zcount(withdrawals[toLowerCase(ops[i].a)], ops[i].ts, ops[i].ts) = 1

\* two valid debit requests i and j of one native address whose amounts fit the
\* balance one by one but not together
Overdraw(i, j) ==
    LET B == parseEther(InitBAN)
        x == parseEther(ops[i].amt)
        y == parseEther(ops[j].amt)
    IN  /\ i # j
        /\ \A n \in {i, j} :
              /\ ops[n].kind \in DebitKinds /\ ops[n].sigOk
              /\ hasClaim(ops[n].a, ops[n].bc)
        /\ ops[i].kind = "withdrawal" /\ ops[j].kind = "withdrawal"
              => ops[i].ts # ops[j].ts
        /\ x <= B /\ y <= B /\ x + y > B

\* C4 (Per-account serial order): when the only operations on a native address
\* are two debits (withdrawals with different timestamps and/or swaps to wBAN)
\* of amounts x, y with x <= balance, y <= balance, x + y > balance, then once
\* both are over exactly one has succeeded, the other was rejected with
\* InsufficientBalance, and the balance is that of the one debit (never
\* negative).
C4_SerialDebits ==
    \A a \in Native : \A i, j \in RequestsOn(a) :
        ( /\ RequestsOn(a) = {i, j}
          /\ Overdraw(i, j)
          /\ \A k \in OpsOn(a) : ops[k].pc = "done" )
        => LET ended == {k \in OpsOn(a) : ops[k].res \notin Superseded}
           IN  /\ Cardinality(ended) = 2
               /\ \E k \in ended : \E l \in ended \ {k} :
                     /\ ops[k].res = "Ok"
                     /\ ops[l].res = "InsufficientBalance"
                     /\ balance[a] = parseEther(InitBAN) - parseEther(ops[k].amt)
               /\ balance[a] >= 0

\* C4 witness: two such debits, queued together, are both over.
C4_Witness ==
    \E a \in Native : \E i, j \in RequestsOn(a) :
        /\ RequestsOn(a) = {i, j}
        /\ Overdraw(i, j)
        /\ ops[i].kind # ops[j].kind
        /\ \A k \in OpsOn(a) : ops[k].pc = "done"

\* C10: a withdrawal job that runs while IsClaimed(native_addr) or
\* HasClaim(native_addr, blockchain_addr) is false is rejected at once: it ends
\* at its validation step, before any send, successor or ledger write.
C10_UnclaimedWithdrawalRejected ==
    [][\A i \in Ids :
          ( /\ ops[i].kind = "withdrawal"
            /\ ops[i].pc = "run" /\ ops'[i].pc # "run"
            /\ ~(isClaimed(ops[i].a) /\ hasClaim(ops[i].a, ops[i].bc)) )
          => ops'[i].pc = "done"]_vars

\* C11: a withdrawal job whose amount is negative or zero is rejected: it stays
\* before or at its validation and ends there with an error; no send is made
\* for it and no withdrawal record or audit entry is written for it.
C11_NonPositiveRejected ==
    /\ \A i \in Ids :
          (ops[i].kind = "withdrawal" /\ ops[i].amt <= 0) =>
             /\ ops[i].pc \in {"queued", "run", "done"}
             /\ ops[i].attempt = 0
             /\ ops[i].pc = "done" => ops[i].res \notin {"Ok"} \cup Superseded
    /\ \A s \in sends : s.amount > 0
    /\ \A r \in audit : r.type = "withdrawal" => r.amount > 0

\* a valid withdrawal request i that is the only request on its native address
LoneWithdrawal(a, i) ==
    /\ RequestsOn(a) = {i}
    /\ ops[i].kind = "withdrawal" /\ ops[i].sigOk /\ ops[i].amt > 0
    /\ hasClaim(ops[i].a, ops[i].bc)
    /\ \A k \in OpsOn(a) : ops[k].kind = "withdrawal"

\* C12 (Pending funds then replay): a withdrawal job of amount w that finds
\* the hot wallet below w enqueues a successor, sends nothing and leaves
\* balance, withdrawals and audit entries as they are; and when the request
\* went pending and a successor has completed, one send of w was made, the
\* withdrawal is recorded under the hash of that send and the balance is lower
\* by exactly w.
C12_PendingThenReplay ==
    /\ [][\A i \in Ids :
             ( /\ ops[i].pc = "w_send" /\ ops'[i].pc # "w_send"
               /\ hotWallet < parseEther(ops[i].amt) )
             => /\ balance' = balance /\ withdrawals' = withdrawals
                /\ audit' = audit /\ sends' = sends /\ hotWallet' = hotWallet
                /\ ops'[i].hash = NoHash
                /\ Len(ops') = Len(ops) + 1
                /\ LET n == ops'[Len(ops')]
                   IN  /\ n.kind = "withdrawal" /\ n.pc = "queued"
                       /\ n.a = ops[i].a /\ n.amt = ops[i].amt
                       /\ n.ts = ops[i].ts /\ n.bc = ops[i].bc
                       /\ n.attempt = ops[i].attempt + 1]_vars
    /\ [](\A a \in Native : \A i \in Ids :
            ( /\ LoneWithdrawal(a, i)
              /\ ops[i].res = "Replaced"
              /\ \A k \in OpsOn(a) : ops[k].pc = "done"
              /\ \E k \in OpsOn(a) : ops[k].res = "Ok" )
            => LET w == parseEther(ops[i].amt)
                   B == IF a = "ban_a" THEN parseEther(InitBAN) ELSE 0
               IN  \E s \in sends :
                      /\ SendsOf(a, ops[i].ts) = {s}
                      /\ s.amount = w
                      /\ withdrawals[a] = {<<s.hash, ops[i].ts>>}
                      /\ {r \in audit : r.key = s.hash} =
                            {[key |-> s.hash, type |-> "withdrawal",
                              amount |-> w, ts |-> ops[i].ts]}
                      /\ balance[a] = B - w)

\* C12 witness: a lone withdrawal went pending and its successor completed.
C12_Witness ==
    \E a \in Native : \E i, k \in Ids :
        /\ LoneWithdrawal(a, i)
        /\ ops[i].res = "Replaced"
        /\ k \in OpsOn(a) /\ ops[k].attempt = 1 /\ ops[k].res = "Ok"
        /\ \A n \in OpsOn(a) : ops[n].pc = "done"

\* the members of the sequences of one type tag
Members(type) ==
    CASE type = "deposit" -> UNION {{m[1] : m \in deposits[a]} : a \in Native}
      [] type = "withdrawal" -> UNION {{m[1] : m \in withdrawals[a]} : a \in Native}
      [] type = "swap-to-wban" -> UNION {{m[1] : m \in swapsBanToWban[a]} : a \in Native}
      [] type = "swap-to-ban" -> UNION {{m[1] : m \in swapsWbanToBan[b]} : b \in Blockchain}

AuditTypes == {"deposit", "withdrawal", "swap-to-wban", "swap-to-ban"}

\* C14: in every reachable state every member of a deposits, withdrawals,
\* swaps:ban-to-wban or swaps:wban-to-ban sequence has an audit entry whose type
\* tag is that of its sequence, and every audit entry is that of a member of
\* the sequence of its type.
C14_AuditMatches ==
    /\ \A type \in AuditTypes : \A m \in Members(type) :
          \E r \in audit : r.key = m /\ r.type = type
    /\ \A r \in audit : r.type \in AuditTypes /\ r.key \in Members(r.type)

\* C14 witness: all four sequences have a member.
C14_Witness == \A type \in AuditTypes : Members(type) # {}

\* C16 (No lost update): when a deposit of d and a swap to wBAN of s are the
\* only operations on a native address with balance B and both have completed,
\* the balance is B + d - s.
C16_NoLostUpdate ==
    \A a \in Native : \A i, j \in Ids :
        ( /\ OpsOn(a) = {i, j}
          /\ ops[i].kind = "deposit" /\ ops[j].kind = "swapToWBAN"
          /\ ops[i].pc = "done" /\ ops[i].res = "Stored"
          /\ ops[j].pc = "done" /\ ops[j].res = "Ok" )
        => balance[a] = (IF a = "ban_a" THEN parseEther(InitBAN) ELSE 0)
                           + ops[i].amt - parseEther(ops[j].amt)

---------------------------------------------------------------------------
(* Properties of the store under deliveries that do not wait for each      *)
(* other (SpecDeliveries) and lock discipline.                             *)

\* the deliveries of redemption event e
DeliveriesOf(e) == {i \in Ids : ops[i].kind = "swapToBAN" /\ ops[i].hash = e.hash}

AuditOf(key) == {r \in audit : r.key = key}

\* C2 (Swap-to-BAN idempotency): a delivery commits a redemption event only when
\* no delivery has recorded its hash before; and when one event is delivered k
\* times, one after the other or at once, and nothing else runs, the balance is
\* never anything but the old one or the old one plus amount, and once all k
\* deliveries are over it is the old one plus amount, with the hash a member of
\* swaps:wban-to-ban:<blockchain_addr> and under one audit entry.
C2_SwapToBanIdempotent ==
    /\ [](\A e \in Events :
            LET a == toLowerCase(e.banWallet)
                B == parseEther(InitBAN)
            IN  (Ids # {} /\ DeliveriesOf(e) = Ids) =>
                  /\ balance[a] \in {B, B + parseEther(e.amount)}
                  /\ (\A i \in Ids : ops[i].pc = "done") =>
                        /\ balance[a] = B + parseEther(e.amount)
                        /\ Cardinality({m \in swapsWbanToBan[e.blockchainWallet] :
                                           m[1] = e.hash}) = 1
                        /\ AuditOf(e.hash) =
                              {[key |-> e.hash, type |-> "swap-to-ban",
                                amount |-> parseEther(e.amount),
                                ts |-> e.timestamp * 1000]})
    /\ [][\A i \in Ids :
             (ops[i].pc = "b_write" /\ ops'[i].pc # "b_write")
                => ~zrank(swapsWbanToBan[ops[i].bc], ops[i].hash)]_vars

\* C2 witness: MaxOps deliveries of one event are over; two of them were in
\* the store at once, one found the event recorded by the other.
C2_Witness ==
    \E e \in Events :
        /\ DeliveriesOf(e) = Ids /\ Cardinality(Ids) = MaxOps
        /\ \A i \in Ids : ops[i].pc = "done"
        /\ \E i, j \in Ids : ops[i].res = "Ok" /\ ops[j].res = "AlreadyDone"

\* an operation that has read the balance it is about to write
BalanceWritePending(i) == ops[i].pc \in {"d_write", "w_write", "sw_write", "b_write"}

\* C5 (Lock discipline): an operation that writes ban-balance:<addr> holds the
\* lock balance:<addr> from its read of the balance until its write commits.
C5_LockDiscipline ==
    \A i \in Ids :
        BalanceWritePending(i) => locks[balanceLock(toLowerCase(ops[i].a))] = i

---------------------------------------------------------------------------
(* Properties of the claim state machine (SpecClaims).                     *)

\* the confirmed and the pending claims of native address a
ClaimsOf(a) == {k \in claims : k[1] = a}

PendingOf(a) == {k \in pendingClaims : k[1] = a}

\* call c takes a step, and ends with it
Steps(c) == c \in CallIds /\ calls'[c] # calls[c]

Ends(c, r) == Steps(c) /\ calls'[c].pc = "done" /\ calls'[c].res = r

\* C7 (Single claim per native address): at every moment a native address has
\* at most one confirmed claim.
C7_SingleClaim == \A a \in Native : Cardinality(ClaimsOf(a)) <= 1

\* C8 (Claim ordering and result codes): claim() applies its checks in the
\* order signature, blacklist, confirmed claim for (a, b), pending claim for a,
\* store, and returns the result of the first check that applies; a call keeps
\* both claim tables as they are unless it ends with Ok, which adds the pending
\* claim (a, b).
C8_ClaimOrder ==
    [][/\ \A c \in CallIds :
            LET call == calls[c]
                key == <<toLowerCase(call.a), call.bc>>
            IN  Steps(c) =>
                  /\ call.pc = "c_hasClaim" =>
                        IF key \in claims
                        THEN Ends(c, "AlreadyDone")
                        ELSE calls'[c].pc = "c_hasPending"
                  /\ call.pc = "c_hasPending" =>
                        IF PendingOf(key[1]) # {}
                        THEN Ends(c, "InvalidOwner")
                        ELSE calls'[c].pc = "c_store"
                  /\ call.pc = "c_store" =>
                        Ends(c, "Ok") \/ Ends(c, "Error")
                  /\ claims' = claims
                  /\ pendingClaims' =
                        IF Ends(c, "Ok") THEN pendingClaims \cup {key}
                        ELSE pendingClaims
       /\ Len(calls') > Len(calls) =>
            LET new == calls'[Len(calls')]
            IN  /\ ~new.sigOk => new.pc = "done" /\ new.res = "InvalidSignature"
                /\ new.sigOk /\ new.blacklisted
                      => new.pc = "done" /\ new.res = "Blacklisted"
                /\ new.sigOk /\ ~new.blacklisted => new.pc = "c_hasClaim"
                /\ claims' = claims /\ pendingClaims' = pendingClaims]_vars

\* C8 witness: a call with a bad signature from a blacklisted wallet was turned
\* down for its signature, and another call has stored its pending claim.
C8_Witness ==
    \E c, d \in CallIds :
        /\ ~calls[c].sigOk /\ calls[c].blacklisted
        /\ calls[c].pc = "done" /\ calls[c].res = "InvalidSignature"
        /\ calls[d].pc = "done" /\ calls[d].res = "Ok"
        /\ <<toLowerCase(calls[d].a), calls[d].bc>> \in pendingClaims

\* C9 (Claim result semantics): claim(a, b) ends with InvalidOwner only when a
\* pending claim of a for another blockchain address exists (so repeating
\* claim(a, b) while its own pending claim is the only one does not), and it
\* ends with AlreadyDone only when (a, b) is a confirmed claim.
C9_ClaimResults ==
    [][\A c \in CallIds :
          LET a == toLowerCase(calls[c].a)
              b == calls[c].bc
          IN  /\ Ends(c, "InvalidOwner")
                    => \E k \in PendingOf(a) : k[2] # b
              /\ Ends(c, "AlreadyDone") => <<a, b>> \in claims]_vars

\* C6 (Claim monotonicity): a confirmed claim (a, b) stays confirmed; no step
\* removes it.
C6_ClaimMonotonic == [][claims \subseteq claims']_vars

\* C6 witness: a claim was confirmed, its pending key has run out, and a later
\* claim of the same native address for another blockchain address is pending
\* or confirmed next to it.
C6_Witness ==
    \E k \in claims :
        /\ k \notin pendingClaims
        /\ \E n \in pendingClaims \cup claims : n[1] = k[1] /\ n[2] # k[2]
        /\ \E i \in Ids : ops[i].kind = "withdrawal" /\ ops[i].res = "Ok"

\* C19 (Confirmation is copy-then-delete): a step that confirms a claim of
\* native address a leaves HasClaim(a, b) true for a claim (a, b) that was
\* pending and HasPendingClaim(a) false.
C19_CopyThenDelete ==
    [][\A a \in Native :
          (claims' # claims /\ PendingOf(a) # {} /\ ClaimsOf(a)' # ClaimsOf(a))
          => /\ \E k \in PendingOf(a) : k \in claims'
             /\ \A k \in pendingClaims' : k[1] # a]_vars

\* two claim calls for one native address and two blockchain addresses, both
\* validly signed and not blacklisted, have both returned Ok
BothOk(c, d) ==
    /\ c # d
    /\ toLowerCase(calls[c].a) = toLowerCase(calls[d].a)
    /\ calls[c].bc # calls[d].bc
    /\ \A n \in {c, d} :
          calls[n].sigOk /\ ~calls[n].blacklisted
             /\ calls[n].pc = "done" /\ calls[n].res = "Ok"

\* C20 (Pending-claim race): a confirmation promotes one claim, one of those
\* pending for the address at that moment; a call returns Ok only for a claim
\* it has stored.  (That two concurrent calls can both return Ok and leave two
\* pending claims, one of which confirm then promotes, is the witness.)
C20_ConfirmPromotesOne ==
    [][/\ claims' # claims =>
             \E k \in pendingClaims : claims' = claims \cup {k}
       /\ \A c \in CallIds :
             Ends(c, "Ok") =>
                <<toLowerCase(calls[c].a), calls[c].bc>> \in pendingClaims']_vars

\* C20 witness: both calls returned Ok, both claims are pending at once, and
\* confirm has promoted the one for the second call's blockchain address only.
C20_Witness ==
    \E c, d \in CallIds :
        /\ c < d /\ BothOk(c, d)
        /\ LET a == toLowerCase(calls[c].a)
           IN  /\ PendingOf(a) = {<<a, calls[c].bc>>, <<a, calls[d].bc>>}
               /\ ClaimsOf(a) = {<<a, calls[d].bc>>}

---------------------------------------------------------------------------
(* Properties of the chain checkpoint (SpecCheckpoint).                    *)

\* C13 (Checkpoint monotonicity): the stored checkpoint never decreases; a
\* SetLastProcessedBlock(n) with n <= current leaves it as it is; and once all
\* calls made are over, however their reads and writes interleaved, the
\* checkpoint is the maximum of its first value and all n passed.
C13_CheckpointMonotonic ==
    /\ [][/\ lastBlockProcessed(latestBlock') >= lastBlockProcessed(latestBlock)
          /\ \A k \in SetterIds :
                ( /\ setters[k].pc = "set" /\ setters'[k].pc = "done"
                  /\ setters[k].block <= lastBlockProcessed(latestBlock) )
                => latestBlock' = latestBlock]_vars
    /\ []((setters # <<>> /\ \A k \in SetterIds : setters[k].pc = "done")
            => \A k \in SetterIds :
                  lastBlockProcessed(latestBlock) >= setters[k].block)

---------------------------------------------------------------------------
(* Properties of the history reads (SpecHistory).                          *)

\* the records a history read of ban_a / bc_b draws from
RecordsOf(call) ==
    CASE call = "getDeposits" -> deposits["ban_a"]
      [] call = "getWithdrawals" -> withdrawals["ban_a"]
      [] OTHER -> swapsBanToWban["ban_a"] \cup swapsWbanToBan["bc_b"]

\* C15 (History cap and order): a history read returns at most LIMIT entries,
\* sorted by timestamp descending, and they are the most recent ones: every
\* record left out is no newer than any entry returned, and fewer than LIMIT
\* entries are returned only when nothing is left out.
C15_HistoryCapAndOrder ==
    [][history' # history =>
         LET list == history'.list
             all == RecordsOf(history'.call)
             returned == {list[k].key : k \in 1 .. Len(list)}
             left == {e \in all : e[1] \notin returned}
         IN  /\ Len(list) <= LIMIT
             /\ Cardinality(returned) = Len(list)
             /\ returned \subseteq {e[1] : e \in all}
             /\ \A k \in 1 .. Len(list) - 1 : list[k].ts >= list[k + 1].ts
             /\ \A e \in left : \A k \in 1 .. Len(list) : e[2] <= list[k].ts
             /\ Len(list) < LIMIT => left = {}]_vars

---------------------------------------------------------------------------
(* Properties of leases (SpecLease).                                       *)

\* the lock an operation took for the mutation it is about to commit
LeaseOf(o) ==
    CASE o.pc = "b_write" -> balanceLock(o.a)
      [] o.pc = "sw_write" -> swapsLock(toLowerCase(o.a))
      [] OTHER -> balanceLock(toLowerCase(o.a))

\* C17 (Lease expiry): an operation whose lock has run out between its balance
\* read and its multi-write commit abandons the mutation: a commit is made
\* only by an operation that still holds the lock it took, and an operation
\* that lost it changes nothing in the ledger.
C17_LeaseHeldAtCommit ==
    [][\A i \in Ids :
          ( /\ BalanceWritePending(i)
            /\ ops'[i].pc # ops[i].pc
            /\ locks[LeaseOf(ops[i])] # i )
          => redisLedger' = redisLedger]_vars

---------------------------------------------------------------------------
(* Properties of the failure paths (SpecFailures).                         *)

LocksHeldBy(i) == {n \in LockNames : locks[n] = i}

\* the positions of an operation outside every store call
OutsideStores == {"queued", "run", "done", "w_send", "s_mint"}

---------------------------------------------------------------------------
(* Properties of the reverse index (SpecReverseIndex).                     *)

\* the list a call has just returned
Returned(call) == history' # history /\ history'.call = call

\* C21 (Reverse index): getBanAddressesForBlockchainAddress(b) returns exactly
\* the native addresses a with a confirmed claim (a, b): each of them once,
\* none missing when two or more native addresses claim b, and no entry taken
\* from a pending claim key.
C21_ReverseIndex ==
    [][Returned("getBanAddressesForBlockchainAddress") =>
         LET list == history'.list
             b == history'.of
         IN  /\ {list[k] : k \in 1 .. Len(list)} = {<<c[1]>> : c \in {c \in claims : c[2] = b}}
             /\ Cardinality({list[k] : k \in 1 .. Len(list)}) = Len(list)]_vars

\* C21, the part that holds of the code: every entry returned comes from a key
\* of b, a confirmed claim's address or "pending" and a pending claim's
\* address, and no entry is returned twice.
C21_EntriesFromKeys ==
    [][Returned("getBanAddressesForBlockchainAddress") =>
         LET list == history'.list
             b == history'.of
         IN  /\ \A k \in 1 .. Len(list) :
                   \/ \E c \in claims : c[2] = b /\ list[k] = <<c[1]>>
                   \/ \E c \in pendingClaims : c[2] = b /\ list[k] = <<"pending", c[1]>>
             /\ Cardinality({list[k] : k \in 1 .. Len(list)}) = Len(list)]_vars

---------------------------------------------------------------------------
(* Properties of address normalization (SpecDeliveries).                   *)

\* the positions of an operation inside a critical section on a balance: its
\* acquire has returned, its release has not
InBalanceSection ==
    {"gb_read", "gb_rel", "d_read", "d_write", "d_rel", "w_read", "w_write",
     "w_rel", "b_again", "b_read", "b_write", "b_rel"}

\* the native address the store operation an operation is in was given
GivenAddress(o) == IF o.pc \in {"gb_read", "gb_rel"} THEN o.from ELSE o.a

\* C22 (Address normalization of locks): two store operations given the same
\* native address in different letter case contend for one lock: they are
\* never both inside their critical sections on its balance.
C22_OneLockPerAddress ==
    \A i, j \in Ids :
        ( /\ i # j
          /\ ops[i].pc \in InBalanceSection /\ ops[j].pc \in InBalanceSection
          /\ toLowerCase(GivenAddress(ops[i])) = toLowerCase(GivenAddress(ops[j])) )
        => GivenAddress(ops[i]) = GivenAddress(ops[j])

---------------------------------------------------------------------------
(* Properties of the withdrawal processor's outcome (Spec).                *)

\* the step of a withdrawal job that finds the hot wallet below its amount
CannotSend(i) ==
    /\ ops[i].pc = "w_send" /\ ops'[i].pc # "w_send"
    /\ hotWallet < parseEther(ops[i].amt)

\* the positions of a withdrawal job inside the balance read of its result
ReadsResult(i, pc) ==
    /\ ops[i].kind = "withdrawal" /\ ops[i].ret = "result"
    /\ ops[i].pc = pc /\ ops'[i].pc # pc

---------------------------------------------------------------------------
(* Properties of the swap to wBAN (Spec).                                  *)

Rejections == {"InvalidSignature", "InvalidOwner", "NegativeAmount", "InsufficientBalance"}

\* operation i takes a step
Moves(i) == ops'[i] # ops[i]

\* a swap-to-wBAN job before the end of its validation
Validating(o) ==
    /\ o.kind = "swapToWBAN"
    /\ o.pc = "run" \/ (o.pc \in {"gb_acq", "gb_read", "gb_rel"} /\ o.ret = "s_check")

\* C24 (Swap-to-wBAN effect): a swap-to-wBAN job rejected at a validation step
\* (InvalidSignature, InvalidOwner, negative amount, InsufficientBalance) has
\* created no mint receipt and changed neither balance nor swap sequence nor
\* audit entries; a job that passes validation creates one mint receipt, and
\* its store lowers the balance of its native address by exactly amount,
\* records that receipt, and changes no other address's balance.
C24_SwapToWBanEffect ==
    /\ [][\A i \in Ids :
             /\ (Validating(ops[i]) /\ Moves(i)) =>
                   /\ redisLedger' = redisLedger /\ receipts' = receipts
                   /\ ops'[i].hash = NoHash
                   /\ ops'[i].pc = "done" =>
                         /\ ops'[i].res \in Rejections
                         /\ ops'[i].res = "InvalidSignature" <=> ~ops[i].sigOk
                         /\ ops'[i].res = "InvalidOwner" =>
                               ~hasClaim(ops[i].a, ops[i].bc)
                         /\ ops'[i].res = "NegativeAmount" => ops[i].amt < 0
                         /\ ops'[i].res = "InsufficientBalance" =>
                               ops[i].bal < parseEther(ops[i].amt)
                   /\ ops'[i].pc = "s_mint" =>
                         /\ ops[i].sigOk /\ ops[i].amt >= 0
                         /\ ops[i].bal >= parseEther(ops[i].amt)
             /\ (ops[i].pc = "s_mint" /\ Moves(i)) =>
                   /\ redisLedger' = redisLedger
                   /\ \E r \in receipts' \ receipts :
                         /\ receipts' = receipts \cup {r}
                         /\ r.receipt = ops'[i].hash /\ r.bc = ops[i].bc
                         /\ r.amount = parseEther(ops[i].amt)
             /\ (ops[i].kind = "swapToWBAN" /\ ops[i].pc \notin {"run", "s_mint"}
                     /\ Moves(i)) => receipts' = receipts
             /\ (ops[i].pc = "sw_write" /\ Moves(i)) =>
                   LET a == toLowerCase(ops[i].a)
                       amount == parseEther(ops[i].amt)
                   IN  /\ balance' = [balance EXCEPT ![a] = balance[a] - amount]
                       /\ swapsBanToWban' =
                             [swapsBanToWban EXCEPT
                                ![a] = @ \cup {<<ops[i].hash, ops[i].ts>>}]
                       /\ audit' = audit \cup
                             {[key |-> ops[i].hash, type |-> "swap-to-wban",
                               amount |-> amount, ts |-> ops[i].ts]}
                       /\ UNCHANGED <<deposits, withdrawals, swapsWbanToBan>>]_vars
    /\ [](\A i \in Ids :
            (ops[i].kind = "swapToWBAN" /\ ops[i].pc = "done"
                /\ ops[i].res \in Rejections) => ops[i].hash = NoHash)

---------------------------------------------------------------------------
(* Properties of the store called directly (SpecStore).                    *)

\* the withdrawal records of native address a with timestamp t
WithdrawalsAt(a, t) == {e \in withdrawals[a] : e[2] = t}

\* C25: containsUserWithdrawalRequest(a, t) is true if and only if at least
\* one withdrawal record of a has the timestamp t, also when two or more
\* records of a share t.
C25_ContainsIffRecorded ==
    \A a \in NativeRaw, t \in 0 .. MaxTs :
        containsUserWithdrawalRequest(a, t) <=> WithdrawalsAt(toLowerCase(a), t) # {}

\* C25, the part that holds of the code: the answer is true if and only if
\* exactly one withdrawal record of a has the timestamp t.
C25_ContainsIffOneRecord ==
    \A a \in NativeRaw, t \in 0 .. MaxTs :
        containsUserWithdrawalRequest(a, t)
            <=> Cardinality(WithdrawalsAt(toLowerCase(a), t)) = 1

\* the sum of the audited amounts of a set of hashes
RECURSIVE AuditedSum(_)
AuditedSum(hashes) ==
    IF hashes = {} THEN 0
    ELSE LET h == CHOOSE h \in hashes : TRUE
         IN  hgetall(h).amount + AuditedSum(hashes \ {h})

\* the hashes of the swaps to BAN that credited native address a
SwapToBanCredits(a) ==
    {m[1] : m \in UNION {swapsWbanToBan[b] : b \in Blockchain}}
        \cap {ops[i].hash : i \in {k \in OpsOn(a) : ops[k].kind = "swapToBAN"}}

\* the store operations made so far carry pairwise distinct hashes and receipts
DistinctHashes ==
    \A i, j \in Ids :
        (i # j /\ ops[i].hash # NoHash) => ops[i].hash # ops[j].hash

\* no store operation is in progress
Quiescent == \A i \in Ids : ops[i].pc = "done"

\* C26 (Ledger conservation): when no store operation is in progress and the
\* store operations made carry pairwise distinct hashes and receipts, the
\* balance of each native address is the sum of the audited amounts of its
\* deposits and of its swap-to-BAN credits, minus those of its withdrawals and
\* of its swaps to wBAN.
C26_Conservation ==
    (Quiescent /\ DistinctHashes) =>
        \A a \in Native :
            balance[a] = AuditedSum({m[1] : m \in deposits[a]})
                           + AuditedSum(SwapToBanCredits(a))
                           - AuditedSum({m[1] : m \in withdrawals[a]})
                           - AuditedSum({m[1] : m \in swapsBanToWban[a]})

---------------------------------------------------------------------------
(* Properties of lock waits (SpecStoreFair).                               *)

\* the lock an operation at an acquisition asks for
WantedLock(o) ==
    CASE o.pc = "gb_acq" -> balanceLock(o.from)
      [] o.pc = "sw_acq" -> swapsLock(toLowerCase(o.a))
      [] o.pc = "b_acq" -> balanceLock(o.a)
      [] OTHER -> balanceLock(toLowerCase(o.a))

\* operation i waits for a lock that operation j holds
WaitsOn(i, j) == ops[i].pc \in AtAcquire /\ locks[WantedLock(ops[i])] = j

\* C27 (Deadlock freedom): under fair scheduling every started store operation
\* is over in the end, returned or failed; and in no state is there a set of
\* operations each of which waits for a lock held by one of the set.
C27_DeadlockFree ==
    /\ [](\A D \in SUBSET Ids :
            D # {} => \E i \in D : \A j \in D : ~WaitsOn(i, j))
    /\ \A i \in Slots : (i \in Ids) ~> (i \in Ids /\ ops[i].pc = "done")

\* C27 witness: a chain of waits: a swap to wBAN holds its swaps lock and waits,
\* nested, for the balance lock another operation holds, while a third
\* operation waits for the swaps lock.
C27_Witness ==
    \E i, j, k \in Ids :
        /\ ops[i].kind = "swapToWBAN" /\ ops[i].pc = "gb_acq"
        /\ locks[swapsLock(toLowerCase(ops[i].a))] = i
        /\ WaitsOn(i, j) /\ WaitsOn(k, i)

===========================================================================
